---- MODULE Spec2Model ----
(***************************************************************************)
(* Proxy pool manager and rotation-aware fetch cycle of the Modrinth       *)
(* autobot (src/unnamed/part_000).                                         *)
(*                                                                         *)
(* JavaScript runs every synchronous segment to completion, so one action  *)
(* of this model is one segment between two awaits: the handler runs from  *)
(* the resolution of the promise it was waiting for up to the next await   *)
(* (or its end).  Two logical actors interleave at these points: the       *)
(* cycle controller (runCycle and what it awaits) and the pool refresher   *)
(* (refreshProxyPool, started by runCycle and not awaited).                *)
(*                                                                         *)
(* A proxy "host:port" string is a number of 1..; a file URL is the index  *)
(* of its version in state.versions.                                       *)
(***************************************************************************)
EXTENDS Integers, Sequences, FiniteSets

\* ------------------------------------------------------------ constants
PROXY_REFRESH_EVERY == 25
\* candidates tested per refresh: .slice(0, 80)
SAMPLE_CAP == 80
\* const BATCH = 15
BATCH == 15
\* loop guard working.length < 35
TARGET == 35
\* buf.byteLength < 100
MIN_BYTES == 100

\* ------------------------------------------------------------ bounds
\* cycles the controller runs after the state it starts from
MaxCycles == 2
\* the pools the pool operations are tried on have at most MaxPool members
MaxPool == 3
\* the small candidate lists the sources may return have 0..SmallList entries
SmallList == 3

VARIABLES
  \* state.* of the program
  cycles, views, downloads, dlFailed, errors,
  versions,          \* state.versions: the file count of each kept version
  proxyPool, proxyTested, proxyWorking, proxyRefreshing,
  lastProxyRefresh,  \* 0 is null; n is the timestamp of the n-th completed refresh
  \* the cycle controller: where runCycle is suspended, and its locals
  pc, file, proxy,
  timers,            \* setTimeout(runCycle, ..) timers that have not fired yet
  resp,              \* the answer the request the cycle is waiting for will get
  \* the refresher: where refreshProxyPool is suspended, and its locals
  rpc, pool, working, i, probe,
  \* fetchProxyCandidates: what each source will answer, the sources whose
  \* callback has ended, the Set in insertion order, and the returned array
  sources, settled, set, candidates,
  \* observations of what the program did:
  cycleReqs,         \* the requests the latest cycle has issued, in order
  refreshLog,        \* the type of the refresher's latest log entry
  refreshStarted,    \* refreshes that passed the single-flight guard
  refreshEnded,      \* refreshes that reached the end of refreshProxyPool
  base, taken,       \* the pool after its latest evict or replace, and what
                     \* nextProxy has returned since (0 is null)
  installed,         \* the working set the latest replace has assigned
  installedBy,       \* how the proxies answered the probe in that refresh
  evicted            \* the proxies the cycle has evicted since that replace

vars == <<cycles, views, downloads, dlFailed, errors, versions,
          proxyPool, proxyTested, proxyWorking, proxyRefreshing, lastProxyRefresh,
          pc, file, proxy, timers, resp, rpc, pool, working, i, probe,
          sources, settled, set, candidates,
          cycleReqs, refreshLog, refreshStarted, refreshEnded, base, taken,
          installed, installedBy, evicted>>

counters == <<cycles, views, downloads, dlFailed, errors>>
poolState == <<proxyPool, proxyTested, proxyWorking, lastProxyRefresh>>
refresher == <<rpc, pool, working, i, probe>>
refreshObs == <<refreshLog, refreshStarted, refreshEnded>>
poolObs == <<base, taken, installed, installedBy, evicted>>
collector == <<sources, settled, set, candidates>>

\* ------------------------------------------------------------ helpers
Range(s) == {s[k] : k \in 1..Len(s)}

Min(a, b) == IF a < b THEN a ELSE b

\* arr.slice(from, to) with 0-based from (inclusive) and to (exclusive)
Slice(s, from, to) == SubSeq(s, from + 1, Min(to, Len(s)))

\* arr.filter(p => p !== x)
FilterOut(s, x) == SelectSeq(s, LAMBDA p : p # x)

NoDup(s) == \A a, b \in 1..Len(s) : a # b => s[a] # s[b]

Ascending(n) == [k \in 1..n |-> k]
Descending(n) == [k \in 1..n |-> n + 1 - k]

\* ------------------------------------------------------------ environment
\* What a request can come back with: no response (timeout, network error),
\* a response whose body cannot be read, or a response with a status and a
\* body of some length; the version request's body is a version list.
Answer(kind, ok, bytes, list) == [kind |-> kind, ok |-> ok, bytes |-> bytes, list |-> list]
NoResponse == Answer("error", FALSE, 0, <<>>)
BrokenBody == Answer("broken", TRUE, 0, <<>>)
Response(ok, bytes) == Answer("response", ok, bytes, <<>>)
\* the headers have arrived, which clears the request's timer, and the body
\* never ends: the read of the body does not settle
StalledBody == Answer("stalled", TRUE, 0, <<>>)
\* no request of the cycle is outstanding
NoRequest == Answer("none", FALSE, 0, <<>>)
BodySizes == {MIN_BYTES - 1, MIN_BYTES}
Responses ==
  {NoResponse, BrokenBody, StalledBody}
  \cup {Response(ok, b) : ok \in BOOLEAN, b \in BodySizes}
\* the page request: the body's length is not looked at
ViewResponses ==
  {NoResponse, BrokenBody, StalledBody, Response(TRUE, MIN_BYTES),
   Response(FALSE, MIN_BYTES)}

\* The candidate lists one collection can return, as the shuffle leaves them:
\* every small list in two orders, one list longer than the target pool size
\* and one longer than the sample cap.
CandidateLists ==
  {Ascending(n) : n \in 0..SmallList} \cup {Descending(n) : n \in 2..SmallList}
  \cup {Ascending(TARGET + 1), Ascending(SAMPLE_CAP + 1)}

\* How the proxies answer the probe during one refresh: the answer of proxy
\* hp is "good" (200 with an origin string), "status" (non-success status),
\* "shape" (200 without an origin string), "error" (throws or times out) or
\* "stall" (the headers arrive, so that the 6 s timer is cleared, and the body
\* never ends).
ProbePatterns == {"allGood", "allError", "gap", "firstOnly", "secondStalls"}
ProbeAnswer(pattern, hp) ==
  CASE pattern = "allGood"   -> "good"
    [] pattern = "allError"  -> "error"
    [] pattern = "gap"       -> IF hp \in 31..41 THEN "shape" ELSE "good"
    [] pattern = "firstOnly" -> IF hp = 1 THEN "good"
                                ELSE IF hp % 2 = 0 THEN "status" ELSE "error"
    [] pattern = "secondStalls" -> IF hp = 2 THEN "stall" ELSE "good"

\* The version lists the metadata API can return: the file count of each version.
VersionLists == {<<>>, <<0>>, <<1>>, <<1, 0, 2>>}
\* The two metadata requests together: one of them is rejected, the project
\* answer has a non-success status, a body is not the expected JSON, or the
\* version list arrives.
MetaResponses ==
  {Answer(k, FALSE, 0, <<>>) : k \in {"fetchError", "projectStatus", "badBody"}}
  \cup {Answer("list", TRUE, 0, all) : all \in VersionLists}
  \cup {StalledBody}

\* ------------------------------------------------------------ proxy pool
\* testProxy: true only for a success status with a string origin.
testProxy(pattern, hp) ==
  LET a == ProbeAnswer(pattern, hp) IN
  IF a = "error" THEN FALSE
  ELSE IF a = "status" THEN FALSE
  ELSE a = "good"

\* testProxy returns at most 6 s after its call unless the headers have come
\* and the body does not end: clearTimeout(tid) stands before res.json()
testReturns(pattern, hp) == ProbeAnswer(pattern, hp) # "stall"

\* results.filter(Boolean) of one batch, in batch order
BatchWorking(pattern, batch) == SelectSeq(batch, LAMBDA hp : testProxy(pattern, hp))

\* mutant: the head is pushed to the end and not shifted off
nextProxyPushOnly(p) ==
  IF Len(p) = 0 THEN [ret |-> 0, pool |-> p]
  ELSE [ret |-> Head(p), pool |-> Append(p, Head(p))]

\* mutant: the head is returned and not moved
nextProxyNoRotate(p) ==
  IF Len(p) = 0 THEN [ret |-> 0, pool |-> p]
  ELSE [ret |-> Head(p), pool |-> p]

\* mutant: the head is shifted off and not pushed back
nextProxyShiftOnly(p) ==
  IF Len(p) = 0 THEN [ret |-> 0, pool |-> p]
  ELSE [ret |-> Head(p), pool |-> Tail(p)]

\* mutant: no guard for the empty pool, so that undefined is pushed
nextProxyNoGuard(p) ==
  IF Len(p) = 0 THEN [ret |-> 0, pool |-> <<0>>]
  ELSE [ret |-> Head(p), pool |-> Append(Tail(p), Head(p))]

\* nextProxy: [returned proxy (0 is null), pool afterwards]
nextProxy(p) ==
  IF Len(p) = 0 THEN [ret |-> 0, pool |-> p]
  ELSE [ret |-> Head(p), pool |-> Append(Tail(p), Head(p))]

\* mutant: the head of the pool is removed, whatever proxy failed
EvictHead(p, x) == IF Len(p) = 0 THEN p ELSE Tail(p)

\* the catch of the proxy attempt: state.proxyPool.filter(p => p !== proxy)
Evict(p, x) == FilterOut(p, x)

\* mutant: the body's length is not looked at
DownloadOkAnySize(r) == r.kind = "response" /\ r.ok

\* mutant: the proxy's answer is never accepted
DownloadOkNever(r) == FALSE

\* a download response counts when res.ok and the body has at least 100 bytes
DownloadOk(r) == r.kind = "response" /\ r.ok /\ ~(r.bytes < MIN_BYTES)

\* mutant: no early stop at the target
LoopGoesOnNoStop(idx, smp, wrk) == idx < Len(smp)

\* the refresh loop's guard
LoopGoesOn(idx, smp, wrk) == idx < Len(smp) /\ Len(wrk) < TARGET

\* ------------------------------------------------------------ candidate collector
\* A text is a sequence of characters (strings of length one).
\* PROXY_SOURCES.length
PROXY_SOURCES == 5

DigitChars == <<"0", "1", "2", "3", "4", "5", "6", "7", "8", "9">>
Digits == Range(DigitChars)
LineBreaks == {"\r", "\n"}
\* what String.prototype.trim removes, of the characters the texts are made of
WhiteSpace == {" ", "\t", "\r", "\n"}

\* text.split(/[\r\n]+/): the pieces between the runs of line breaks; k is the
\* position read next and cur the piece collected so far
RECURSIVE splitFrom(_, _, _)
splitFrom(text, k, cur) ==
  IF k > Len(text) THEN <<cur>>
  ELSE IF text[k] \in LineBreaks
       THEN IF k > 1 /\ text[k - 1] \in LineBreaks
            THEN splitFrom(text, k + 1, cur)
            ELSE <<cur>> \o splitFrom(text, k + 1, <<>>)
       ELSE splitFrom(text, k + 1, Append(cur, text[k]))

split(text) == splitFrom(text, 1, <<>>)

RECURSIVE trimStart(_)
trimStart(s) ==
  IF Len(s) > 0 /\ Head(s) \in WhiteSpace THEN trimStart(Tail(s)) ELSE s

RECURSIVE trimEnd(_)
trimEnd(s) ==
  IF Len(s) > 0 /\ s[Len(s)] \in WhiteSpace THEN trimEnd(SubSeq(s, 1, Len(s) - 1)) ELSE s

trim(s) == trimEnd(trimStart(s))

\* s.split('#')[0]: what stands before the first '#'
RECURSIVE stripComment(_)
stripComment(s) ==
  IF Len(s) = 0 \/ Head(s) = "#" THEN <<>> ELSE <<Head(s)>> \o stripComment(Tail(s))

\* const t = line.trim().split('#')[0].trim()
lineEntry(line) == trim(stripComment(trim(line)))

\* the number of digits that stand in t from position k on
RECURSIVE digitRun(_, _)
digitRun(t, k) ==
  IF k <= Len(t) /\ t[k] \in Digits THEN 1 + digitRun(t, k + 1) ELSE 0

\* \d{lo,hi} at position k, followed by something that is no digit: the
\* position after the digits, or 0 when there is no match (k = 0: none before)
afterDigits(t, k, lo, hi) ==
  IF k = 0 THEN 0
  ELSE LET n == digitRun(t, k) IN IF n >= lo /\ n <= hi THEN k + n ELSE 0

\* the character c at position k: the position after it, or 0
afterChar(t, k, c) ==
  IF k > 0 /\ k <= Len(t) /\ t[k] = c THEN k + 1 ELSE 0

\* /^\d{1,3}(\.\d{1,3}){3}:\d{2,5}$/.test(t)
matchesPattern(t) ==
  LET o1 == afterChar(t, afterDigits(t, 1, 1, 3), ".")
      o2 == afterChar(t, afterDigits(t, o1, 1, 3), ".")
      o3 == afterChar(t, afterDigits(t, o2, 1, 3), ".")
      o4 == afterChar(t, afterDigits(t, o3, 1, 3), ":")
  IN  afterDigits(t, o4, 2, 5) = Len(t) + 1

\* set.add(t): a Set keeps its members in insertion order, each once
add(st, t) == IF t \in Range(st) THEN st ELSE Append(st, t)

\* the for loop over the lines of one text
RECURSIVE addLines(_, _)
addLines(st, lines) ==
  IF Len(lines) = 0 THEN st
  ELSE LET t == lineEntry(Head(lines)) IN
       addLines(IF matchesPattern(t) THEN add(st, t) ELSE st, Tail(lines))

\* What a source can answer: no response (network error, or the abort after
\* 8 s), a response whose body cannot be read, a response with a status and a
\* text, or a success status with a body that does not end ("stalled").
SourceAnswer(kind, ok, text) == [kind |-> kind, ok |-> ok, text |-> text]

Host == <<"1", ".", "2", ".", "3", ".", "4">>
Entry8080 == Host \o <<":", "8", "0", "8", "0">>
\* "999.1.2.3:80\n1.2.3.4\n1.2.3.4:\n1.2.3.4:8080"
ListText ==
  <<"9", "9", "9", ".", "1", ".", "2", ".", "3", ":", "8", "0", "\n">>
  \o Host \o <<"\n">> \o Host \o <<":", "\n">> \o Entry8080
\* "  1.2.3.4:8080 # fast\r\n1.2.3.4:8\n\n1.2.3.4:123456\n255.0.0.1:65535\t\n"
CommentedText ==
  <<" ", " ">> \o Entry8080 \o <<" ", "#", " ", "f", "a", "s", "t", "\r", "\n">>
  \o Host \o <<":", "8", "\n", "\n">>
  \o Host \o <<":", "1", "2", "3", "4", "5", "6", "\n">>
  \o <<"2", "5", "5", ".", "0", ".", "0", ".", "1", ":", "6", "5", "5", "3", "5", "\t", "\n">>
\* "<html>\n# 1.2.3.4:8080\n1.2.3.4:80x\n1.2.3:80\n1234.1.1.1:80"
MalformedText ==
  <<"<", "h", "t", "m", "l", ">", "\n", "#", " ">> \o Entry8080
  \o <<"\n">> \o Host \o <<":", "8", "0", "x", "\n">>
  \o <<"1", ".", "2", ".", "3", ":", "8", "0", "\n">>
  \o <<"1", "2", "3", "4", ".", "1", ".", "1", ".", "1", ":", "8", "0">>

SourceAnswers ==
  <<SourceAnswer("error", FALSE, <<>>), SourceAnswer("broken", TRUE, <<>>),
    SourceAnswer("response", FALSE, ListText),
    SourceAnswer("response", TRUE, ListText),
    SourceAnswer("response", TRUE, CommentedText),
    SourceAnswer("response", TRUE, MalformedText),
    SourceAnswer("stalled", TRUE, <<>>)>>

\* The answers of the PROXY_SOURCES sources.  Every source runs the same
\* callback and the callbacks end in any order, so an assignment of answers
\* to sources is taken once for all its renamings of the sources: the one
\* that follows the order of SourceAnswers.
SourceAssignments ==
  {[s \in 1..PROXY_SOURCES |-> SourceAnswers[f[s]]] :
     f \in {g \in [1..PROXY_SOURCES -> 1..Len(SourceAnswers)] :
              \A s \in 1..(PROXY_SOURCES - 1) : g[s] <= g[s + 1]}}

\* ------------------------------------------------------------ initial states
Req(kind, url, via) == [kind |-> kind, url |-> url, via |-> via]

RefresherIdle ==
  /\ rpc = "idle" /\ pool = <<>> /\ working = <<>> /\ i = 0 /\ probe = "none"

\* the collector is not looked into: its result is taken from CandidateLists
CollectorIdle ==
  /\ sources = <<>> /\ settled = {} /\ set = <<>> /\ candidates = <<>>

\* the state object as constructed, before app.listen's callback has run
Init ==
  /\ cycles = 0 /\ views = 0 /\ downloads = 0 /\ dlFailed = 0 /\ errors = 0
  /\ versions = <<>>
  /\ proxyPool = <<>> /\ proxyTested = 0 /\ proxyWorking = 0
  /\ proxyRefreshing = FALSE /\ lastProxyRefresh = 0
  /\ pc = "boot" /\ file = 0 /\ proxy = 0 /\ resp = NoRequest /\ timers = 0
  /\ RefresherIdle /\ CollectorIdle
  /\ cycleReqs = <<>> /\ refreshLog = "none"
  /\ refreshStarted = 0 /\ refreshEnded = 0
  /\ base = <<>> /\ taken = <<>>
  /\ installed = <<>> /\ evicted = {} /\ installedBy = "none"

\* ------------------------------------------------------------ refresher
\* mutant: no single-flight guard
refreshProxyPoolNoGuard ==
  /\ proxyRefreshing' = TRUE
  /\ refreshLog' = "info"
  /\ refreshStarted' = refreshStarted + 1
  /\ rpc' = "collecting"
  /\ UNCHANGED <<pool, working, i, probe, refreshEnded>>

\* refreshProxyPool up to its first await: the single-flight guard, the flag,
\* the log entry and the start of fetchProxyCandidates
refreshProxyPool ==
  IF proxyRefreshing
  THEN UNCHANGED <<proxyRefreshing, refresher, refreshObs>>
  ELSE /\ proxyRefreshing' = TRUE
       /\ refreshLog' = "info"
       /\ refreshStarted' = refreshStarted + 1
       /\ rpc' = "collecting"
       /\ UNCHANGED <<pool, working, i, probe, refreshEnded>>

\* line 174, after the try statement: the flag is cleared and the call ends
EndRefresh ==
  /\ proxyRefreshing' = FALSE
  /\ refreshEnded' = refreshEnded + 1
  /\ refreshStarted' = refreshStarted
  /\ rpc' = "idle" /\ pool' = <<>> /\ working' = <<>> /\ i' = 0 /\ probe' = "none"

\* mutant: the working set is appended to the pool that is there
ReplaceAppends(smp, wrk) ==
  /\ proxyTested' = Min(Len(smp), SAMPLE_CAP)
  /\ proxyWorking' = Len(proxyPool) + Len(wrk)
  /\ proxyPool' = proxyPool \o wrk
  /\ lastProxyRefresh' = lastProxyRefresh + 1
  /\ refreshLog' = IF Len(wrk) > 0 THEN "ok" ELSE "warn"
  /\ base' = proxyPool' /\ taken' = <<>>
  /\ installed' = wrk /\ installedBy' = probe /\ evicted' = {}
  /\ EndRefresh

\* mutant: a refresh that found no working proxy leaves the pool as it is
ReplaceKeepsWhenEmpty(smp, wrk) ==
  /\ proxyTested' = Min(Len(smp), SAMPLE_CAP)
  /\ proxyPool' = IF Len(wrk) > 0 THEN wrk ELSE proxyPool
  /\ proxyWorking' = Len(proxyPool')
  /\ lastProxyRefresh' = lastProxyRefresh + 1
  /\ refreshLog' = IF Len(wrk) > 0 THEN "ok" ELSE "warn"
  /\ base' = proxyPool' /\ taken' = <<>>
  /\ installed' = wrk /\ installedBy' = probe /\ evicted' = {}
  /\ EndRefresh

\* lines 165-169: the counts, the pool assignment, the timestamp, the log entry
Replace(smp, wrk) ==
  /\ proxyTested' = Min(Len(smp), SAMPLE_CAP)
  /\ proxyWorking' = Len(wrk)
  /\ proxyPool' = wrk
  /\ lastProxyRefresh' = lastProxyRefresh + 1
  /\ refreshLog' = IF Len(wrk) > 0 THEN "ok" ELSE "warn"
  /\ base' = wrk /\ taken' = <<>>
  /\ installed' = wrk /\ installedBy' = probe /\ evicted' = {}
  /\ EndRefresh

\* mutant: each batch's working proxies are pushed onto state.proxyPool
KeepTestingPartial(wrk, nxt) ==
  /\ working' = wrk /\ i' = nxt
  /\ proxyPool' = wrk /\ proxyWorking' = Len(wrk)
  /\ UNCHANGED <<rpc, pool, probe, proxyTested, lastProxyRefresh, proxyRefreshing,
                 refreshObs, poolObs>>

\* the loop goes round: the batch's working proxies are pushed and the next
\* batch is started; nothing of state.* is written
KeepTesting(wrk, nxt) ==
  /\ working' = wrk /\ i' = nxt
  /\ UNCHANGED <<rpc, pool, probe, poolState, proxyRefreshing, refreshObs, poolObs>>

\* the batch the refresher is waiting for: pool.slice(i, i + BATCH), whose
\* tests were all started by the batch.map of line 161
InFlight == IF rpc = "testing" THEN Slice(pool, i, i + BATCH) ELSE <<>>

\* the candidates whose test this refresh has started so far
Tested == IF rpc = "testing" THEN Slice(pool, 0, i + BATCH) ELSE <<>>

\* fetchProxyCandidates has resolved with the list cl; the sample is drawn and
\* the first batch of tests is started (or, with no candidate, the loop is skipped)
CollectDone ==
  /\ rpc = "collecting"
  /\ \E cl \in CandidateLists, pat \in ProbePatterns :
       LET smp == Slice(cl, 0, SAMPLE_CAP) IN
       IF LoopGoesOn(0, smp, <<>>)
       THEN /\ rpc' = "testing" /\ pool' = smp /\ working' = <<>> /\ i' = 0
            /\ probe' = pat
            /\ UNCHANGED <<poolState, proxyRefreshing, refreshObs, poolObs>>
       ELSE Replace(smp, <<>>)
  /\ UNCHANGED collector
  /\ UNCHANGED <<counters, versions, pc, file, proxy, timers, resp, cycleReqs>>

\* mutant: the loop steps by one less than the batch size
BatchDoneOverlaps ==
  /\ rpc = "testing"
  /\ \A hp \in Range(Slice(pool, i, i + BATCH)) : testReturns(probe, hp)
  /\ LET batch == Slice(pool, i, i + BATCH)
         wrk   == working \o BatchWorking(probe, batch)
         nxt   == i + BATCH - 1
     IN  IF LoopGoesOn(nxt, pool, wrk)
         THEN KeepTesting(wrk, nxt)
         ELSE Replace(pool, wrk)
  /\ UNCHANGED collector
  /\ UNCHANGED <<counters, versions, pc, file, proxy, timers, resp, cycleReqs>>

\* Promise.all of the batch at index i has resolved: every test of the batch
\* has returned
BatchDone ==
  /\ rpc = "testing"
  /\ \A hp \in Range(Slice(pool, i, i + BATCH)) : testReturns(probe, hp)
  /\ LET batch == Slice(pool, i, i + BATCH)
         wrk   == working \o BatchWorking(probe, batch)
         nxt   == i + BATCH
     IN  IF LoopGoesOn(nxt, pool, wrk)
         THEN KeepTesting(wrk, nxt)
         ELSE Replace(pool, wrk)
  /\ UNCHANGED collector
  /\ UNCHANGED <<counters, versions, pc, file, proxy, timers, resp, cycleReqs>>

\* A source has sent its headers, so that directFetch has cleared the 8 s
\* timer, and its body does not end: res.text() stays pending, and with it
\* Promise.allSettled and the call of fetchProxyCandidates.
SourceStalls ==
  /\ rpc = "collecting"
  /\ rpc' = "stalled"
  /\ UNCHANGED <<pool, working, i, probe, poolState, proxyRefreshing, refreshObs,
                 poolObs>>
  /\ UNCHANGED collector
  /\ UNCHANGED <<counters, versions, pc, file, proxy, timers, resp, cycleReqs>>

\* mutant: the catch empties the pool
RefreshCatchClears ==
  /\ refreshLog' = "err"
  /\ proxyPool' = <<>> /\ proxyWorking' = 0
  /\ UNCHANGED <<proxyTested, lastProxyRefresh, poolObs>>

\* the catch of refreshProxyPool: the error is logged, nothing else is written
RefreshCatch ==
  /\ refreshLog' = "err"
  /\ UNCHANGED <<poolState, poolObs>>

\* an exception surfaces at an await inside the try block
RefreshError ==
  /\ rpc \in {"collecting", "testing"}
  /\ RefreshCatch
  /\ EndRefresh
  /\ UNCHANGED collector
  /\ UNCHANGED <<counters, versions, pc, file, proxy, timers, resp, cycleReqs>>

\* ------------------------------------------------------------ cycle controller
\* app.listen's callback: setTimeout(runCycle, 1500)
Listen ==
  /\ pc = "boot"
  /\ pc' = "scheduled"
  /\ timers' = timers + 1
  /\ UNCHANGED collector
  /\ UNCHANGED <<counters, versions, poolState, proxyRefreshing, file, proxy, resp,
                 refresher, cycleReqs, refreshObs, poolObs>>

\* mutant: the cycle ends without arming the timer
ScheduleNoTimer ==
  /\ pc' = "scheduled" /\ file' = 0 /\ proxy' = 0 /\ resp' = NoRequest
  /\ timers' = timers

\* the end of runCycle: setTimeout(runCycle, next)
Schedule ==
  /\ pc' = "scheduled" /\ file' = 0 /\ proxy' = 0 /\ resp' = NoRequest
  /\ timers' = timers + 1

\* a request is made: it is noted, and the network settles on its answer
Issue(reqs, rq, answers) ==
  /\ cycleReqs' = Append(reqs, rq)
  /\ resp' \in answers

\* the start of the try block: loadVersions if nothing is cached, else registerView
EnterTry(reqs) ==
  IF Len(versions) = 0
  THEN pc' = "load" /\ Issue(reqs, Req("meta", 0, 0), MetaResponses)
  ELSE pc' = "view" /\ Issue(reqs, Req("view", 0, 0), ViewResponses)

\* mutant: the cadence is counted from the first cycle
RefreshDueFromFirst(c) == c = 1 \/ c % PROXY_REFRESH_EVERY = 1

\* the refresh is asked for on the first cycle and on every N-th
RefreshDue(c) == c = 1 \/ c % PROXY_REFRESH_EVERY = 0

\* the timer fires: runCycle up to its first await
RunCycle(limit) ==
  /\ pc = "scheduled" /\ timers > 0
  /\ cycles < limit
  /\ timers' = timers - 1
  /\ cycles' = cycles + 1
  /\ IF RefreshDue(cycles')
     THEN /\ refreshProxyPool
          /\ IF cycles' = 1
             THEN pc' = "grace" /\ cycleReqs' = <<>> /\ resp' = NoRequest
             ELSE EnterTry(<<>>)
     ELSE /\ EnterTry(<<>>)
          /\ UNCHANGED <<proxyRefreshing, refresher, refreshObs>>
  /\ UNCHANGED collector
  /\ UNCHANGED <<views, downloads, dlFailed, errors, versions, poolState, file,
                 proxy, poolObs>>

\* sleep(3000) of the first cycle is over
GraceDone ==
  /\ pc = "grace"
  /\ EnterTry(cycleReqs)
  /\ timers' = timers
  /\ UNCHANGED collector
  /\ UNCHANGED <<counters, versions, poolState, proxyRefreshing, file, proxy,
                 refresher, refreshObs, poolObs>>

\* mutant: the catch logs the error and does not count it
CycleErrorNotCounted ==
  /\ errors' = errors
  /\ Schedule

\* the catch of runCycle
CycleError ==
  /\ errors' = errors + 1
  /\ Schedule

\* loadVersions has settled: it throws, or it caches the versions that have
\* files and registerView is called
LoadDone ==
  /\ pc = "load" /\ resp.kind # "stalled"
  /\ IF resp.kind = "list"
     THEN /\ versions' = SelectSeq(resp.list, LAMBDA v : v > 0)
          /\ pc' = "view"
          /\ Issue(cycleReqs, Req("view", 0, 0), ViewResponses)
          /\ UNCHANGED <<errors, file, proxy, timers>>
     ELSE /\ CycleError
          /\ UNCHANGED <<versions, cycleReqs>>
  /\ UNCHANGED collector
  /\ UNCHANGED <<cycles, views, downloads, dlFailed, poolState, proxyRefreshing,
                 refresher, refreshObs, poolObs>>

\* mutant: a view that fails is thrown on to the catch of runCycle
ViewDoneRaises ==
  /\ pc = "view" /\ resp.kind # "stalled"
  /\ IF resp.kind = "response"
     THEN /\ views' = views + 1
          /\ pc' = "read" /\ resp' = NoRequest /\ timers' = timers
          /\ UNCHANGED <<errors, file, proxy>>
     ELSE /\ views' = views
          /\ CycleError
  /\ UNCHANGED collector
  /\ UNCHANGED <<cycles, downloads, dlFailed, versions, poolState,
                 proxyRefreshing, refresher, cycleReqs, refreshObs, poolObs>>

\* registerView has settled; whatever it returns, the reading delay starts
ViewDone ==
  /\ pc = "view" /\ resp.kind # "stalled"
  /\ views' = IF resp.kind = "response" THEN views + 1 ELSE views
  /\ pc' = "read" /\ resp' = NoRequest /\ timers' = timers
  /\ UNCHANGED collector
  /\ UNCHANGED <<cycles, downloads, dlFailed, errors, versions, poolState,
                 proxyRefreshing, file, proxy, refresher, cycleReqs, refreshObs,
                 poolObs>>

\* the reading delay is over: downloadFile up to sleep(jitter(1400, 0.5))
ReadDone ==
  /\ pc = "read"
  /\ IF Len(versions) = 0
     THEN Schedule
     ELSE /\ \E v \in 1..Len(versions) : file' = v
          /\ pc' = "click" /\ UNCHANGED <<proxy, resp, timers>>
  /\ UNCHANGED collector
  /\ UNCHANGED <<counters, versions, poolState, proxyRefreshing, refresher,
                 cycleReqs, refreshObs, poolObs>>

\* the click delay is over: nextProxy, then the proxy request or the direct one
ClickDone ==
  /\ pc = "click"
  /\ LET np == nextProxy(proxyPool) IN
     /\ proxyPool' = np.pool
     /\ proxy' = np.ret
     /\ taken' = Append(taken, np.ret)
     /\ timers' = timers
     /\ IF np.ret # 0
        THEN /\ pc' = "proxydl"
             /\ Issue(cycleReqs, Req("proxy", file, np.ret), Responses)
        ELSE /\ pc' = "directdl"
             /\ Issue(cycleReqs, Req("direct", file, 0), Responses)
  /\ UNCHANGED collector
  /\ UNCHANGED <<counters, versions, proxyTested, proxyWorking, lastProxyRefresh,
                 proxyRefreshing, file, refresher, refreshObs, base,
                 installed, installedBy, evicted>>

\* mutant: the proxy is removed and the count is left as it was
EvictProxyKeepsCount(x) ==
  /\ proxyPool' = Evict(proxyPool, x)
  /\ proxyWorking' = proxyWorking
  /\ base' = proxyPool' /\ taken' = <<>>
  /\ evicted' = evicted \cup {x}
  /\ UNCHANGED <<installed, installedBy>>

\* mutant: the catch takes the last member out, where nextProxy had put the
\* proxy it returned
EvictProxyPopsLast(x) ==
  /\ proxyPool' = SubSeq(proxyPool, 1, Len(proxyPool) - 1)
  /\ proxyWorking' = Len(proxyPool')
  /\ base' = proxyPool' /\ taken' = <<>>
  /\ evicted' = evicted \cup {x}
  /\ UNCHANGED <<installed, installedBy>>

\* the catch of the proxy attempt: the proxy is removed and the count is redone
EvictProxy(x) ==
  /\ proxyPool' = Evict(proxyPool, x)
  /\ proxyWorking' = Len(proxyPool')
  /\ base' = proxyPool' /\ taken' = <<>>
  /\ evicted' = evicted \cup {x}
  /\ UNCHANGED <<installed, installedBy>>

\* mutant: the failed proxy attempt is counted as a failed download before the
\* direct request is made
ProxyDlDoneCountsFailure ==
  /\ pc = "proxydl" /\ resp.kind # "stalled"
  /\ IF DownloadOk(resp)
     THEN /\ downloads' = downloads + 1 /\ dlFailed' = dlFailed
          /\ Schedule
          /\ UNCHANGED <<proxyPool, proxyWorking, poolObs, cycleReqs>>
     ELSE /\ EvictProxy(proxy)
          /\ dlFailed' = dlFailed + 1
          /\ pc' = "directdl"
          /\ Issue(cycleReqs, Req("direct", file, 0), Responses)
          /\ UNCHANGED <<downloads, file, proxy, timers>>
  /\ UNCHANGED collector
  /\ UNCHANGED <<cycles, views, errors, versions, proxyTested,
                 lastProxyRefresh, proxyRefreshing, refresher, refreshObs>>

\* the proxy attempt has settled: counted, or the proxy is removed and the
\* direct request is made
ProxyDlDone ==
  /\ pc = "proxydl" /\ resp.kind # "stalled"
  /\ IF DownloadOk(resp)
     THEN /\ downloads' = downloads + 1
          /\ Schedule
          /\ UNCHANGED <<proxyPool, proxyWorking, poolObs, cycleReqs>>
     ELSE /\ EvictProxy(proxy)
          /\ pc' = "directdl"
          /\ Issue(cycleReqs, Req("direct", file, 0), Responses)
          /\ UNCHANGED <<downloads, file, proxy, timers>>
  /\ UNCHANGED collector
  /\ UNCHANGED <<cycles, views, dlFailed, errors, versions, proxyTested,
                 lastProxyRefresh, proxyRefreshing, refresher, refreshObs>>

\* mutant: a failed direct attempt takes one download back
DirectDlDoneTakesBack ==
  /\ pc = "directdl" /\ resp.kind # "stalled"
  /\ IF DownloadOk(resp)
     THEN downloads' = downloads + 1 /\ dlFailed' = dlFailed
     ELSE dlFailed' = dlFailed + 1 /\ downloads' = downloads - 1
  /\ Schedule
  /\ UNCHANGED collector
  /\ UNCHANGED <<cycles, views, errors, versions, poolState, proxyRefreshing,
                 refresher, cycleReqs, refreshObs, poolObs>>

\* the direct attempt has settled
DirectDlDone ==
  /\ pc = "directdl" /\ resp.kind # "stalled"
  /\ IF DownloadOk(resp)
     THEN downloads' = downloads + 1 /\ dlFailed' = dlFailed
     ELSE dlFailed' = dlFailed + 1 /\ downloads' = downloads
  /\ Schedule
  /\ UNCHANGED collector
  /\ UNCHANGED <<cycles, views, errors, versions, poolState, proxyRefreshing,
                 refresher, cycleReqs, refreshObs, poolObs>>

\* ------------------------------------------------------------ specifications
CycleSteps(limit) ==
  \/ RunCycle(limit)
  \/ ViewDone
  \/ ReadDone
  \/ ClickDone
  \/ ProxyDlDone
  \/ DirectDlDone

RefreshSteps ==
  \/ CollectDone
  \/ BatchDone
  \/ RefreshError
  \/ SourceStalls

Next == Listen \/ GraceDone \/ LoadDone \/ CycleSteps(MaxCycles) \/ RefreshSteps

Spec == Init /\ [][Next]_vars

\* ------------------------------------------------------------ progress
\* The event loop runs what is due: a timer that is armed fires, and the
\* continuation of an await runs once the awaited promise has settled.  Each
\* of these actions is enabled only when what it waits for does settle, so
\* weak fairness of each is what the scheduling gives.  Nothing obliges the
\* network to stall a body (SourceStalls) or the try block of the refresher to
\* throw (RefreshError): these have no fairness.
Fairness ==
  /\ WF_vars(Listen) /\ WF_vars(RunCycle(MaxCycles)) /\ WF_vars(GraceDone)
  /\ WF_vars(LoadDone) /\ WF_vars(ViewDone) /\ WF_vars(ReadDone)
  /\ WF_vars(ClickDone) /\ WF_vars(ProxyDlDone) /\ WF_vars(DirectDlDone)
  /\ WF_vars(CollectDone) /\ WF_vars(BatchDone)

SpecLive == Init /\ [][Next]_vars /\ Fairness

\* ------------------------------------------------------------ later cycles
\* The controller just before cycle PROXY_REFRESH_EVERY: every cycle so far
\* viewed the page and downloaded the file directly, and the refresh of cycle 1
\* is still collecting (a source's body has not ended).
LateStart == PROXY_REFRESH_EVERY - 1

InitLate ==
  /\ cycles = LateStart /\ views = LateStart /\ downloads = LateStart
  /\ dlFailed = 0 /\ errors = 0
  /\ versions = <<1>>
  /\ proxyPool = <<>> /\ proxyTested = 0 /\ proxyWorking = 0
  /\ proxyRefreshing = TRUE /\ lastProxyRefresh = 0
  /\ pc = "scheduled" /\ file = 0 /\ proxy = 0 /\ resp = NoRequest /\ timers = 1
  /\ rpc = "collecting" /\ pool = <<>> /\ working = <<>> /\ i = 0 /\ probe = "none"
  /\ CollectorIdle
  /\ cycleReqs = <<Req("view", 0, 0), Req("direct", 1, 0)>>
  /\ refreshLog = "info" /\ refreshStarted = 1 /\ refreshEnded = 0
  /\ base = <<>> /\ taken = <<>>
  /\ installed = <<>> /\ evicted = {} /\ installedBy = "none"

NextLate == CycleSteps(LateStart + MaxCycles) \/ RefreshSteps

SpecLate == InitLate /\ [][NextLate]_vars

\* ------------------------------------------------------------ first and later
\* The controller from boot and from just before cycle PROXY_REFRESH_EVERY:
\* the cycles 1, 2 and 25, 26 of one run.
InitBoth == Init \/ InitLate

NextBoth ==
  \/ Listen \/ GraceDone \/ LoadDone
  \/ CycleSteps(IF cycles < LateStart THEN MaxCycles ELSE LateStart + MaxCycles)
  \/ RefreshSteps

SpecBoth == InitBoth /\ [][NextBoth]_vars

\* ------------------------------------------------------------ pool operations
\* The three operations of the pool on their own, from every pool of at most
\* MaxPool distinct members: checkout (nextProxy), evict (the catch of the
\* proxy attempt) and replace (the refresher's assignment).
Members == 1..(MaxPool + 1)

RECURSIVE DistinctSeqs(_, _)
DistinctSeqs(S, n) ==
  IF n = 0 THEN {<<>>}
  ELSE {<<>>} \cup UNION {{<<x>> \o t : t \in DistinctSeqs(S \ {x}, n - 1)} : x \in S}

Pools == DistinctSeqs(Members, MaxPool)

InitPool ==
  /\ cycles = 1 /\ views = 0 /\ downloads = 0 /\ dlFailed = 0 /\ errors = 0
  /\ versions = <<1>>
  /\ proxyPool \in Pools /\ proxyTested = MaxPool + 1 /\ proxyWorking = Len(proxyPool)
  /\ proxyRefreshing = FALSE /\ lastProxyRefresh = 1
  /\ pc = "pool" /\ file = 1 /\ proxy = 0 /\ resp = NoRequest /\ timers = 0
  /\ RefresherIdle /\ CollectorIdle
  /\ cycleReqs = <<>> /\ refreshLog = (IF Len(proxyPool) > 0 THEN "ok" ELSE "warn")
  /\ refreshStarted = 1 /\ refreshEnded = 1
  /\ base = proxyPool /\ taken = <<>>
  /\ installed = proxyPool /\ evicted = {} /\ installedBy = "allGood"

PoolCheckout ==
  /\ pc = "pool"
  /\ Len(taken) < 2 * MaxPool
  /\ LET np == nextProxy(proxyPool) IN
     /\ proxyPool' = np.pool
     /\ proxy' = np.ret
     /\ taken' = Append(taken, np.ret)
  /\ UNCHANGED collector
  /\ UNCHANGED <<counters, versions, proxyTested, proxyWorking, lastProxyRefresh,
                 proxyRefreshing, pc, file, resp, refresher, cycleReqs, refreshObs,
                 base, installed, installedBy, evicted, timers>>

PoolEvict ==
  /\ pc = "pool"
  /\ \E x \in Members : EvictProxy(x) /\ proxy' = x
  /\ UNCHANGED collector
  /\ UNCHANGED <<counters, versions, proxyTested, lastProxyRefresh,
                 proxyRefreshing, pc, file, resp, refresher, cycleReqs, refreshObs,
                 timers>>

PoolReplace ==
  /\ pc = "pool"
  /\ lastProxyRefresh < 2
  /\ \E wrk \in Pools :
       /\ proxyWorking' = Len(wrk)
       /\ proxyPool' = wrk
       /\ lastProxyRefresh' = lastProxyRefresh + 1
       /\ base' = wrk /\ taken' = <<>>
       /\ installed' = wrk /\ installedBy' = "allGood" /\ evicted' = {}
  /\ UNCHANGED collector
  /\ UNCHANGED <<counters, versions, proxyTested, proxyRefreshing, pc, file, proxy,
                 resp, refresher, cycleReqs, refreshObs, timers>>

NextPool == PoolCheckout \/ PoolEvict \/ PoolReplace

SpecPool == InitPool /\ [][NextPool]_vars

\* ------------------------------------------------------------ collection
\* fetchProxyCandidates on its own, called by the refresh of the first cycle:
\* the sources answer in any order, each with any of SourceAnswers.
outsideCollector ==
  <<counters, versions, poolState, proxyRefreshing, pc, file, proxy, timers, resp,
    pool, working, i, probe, cycleReqs, refreshObs, poolObs>>

InitCollect ==
  /\ cycles = 1 /\ views = 0 /\ downloads = 0 /\ dlFailed = 0 /\ errors = 0
  /\ versions = <<>>
  /\ proxyPool = <<>> /\ proxyTested = 0 /\ proxyWorking = 0
  /\ proxyRefreshing = TRUE /\ lastProxyRefresh = 0
  /\ pc = "grace" /\ file = 0 /\ proxy = 0 /\ resp = NoRequest /\ timers = 0
  /\ rpc = "collecting" /\ pool = <<>> /\ working = <<>> /\ i = 0 /\ probe = "none"
  /\ sources \in SourceAssignments
  /\ settled = {} /\ set = <<>> /\ candidates = <<>>
  /\ cycleReqs = <<>> /\ refreshLog = "info"
  /\ refreshStarted = 1 /\ refreshEnded = 0
  /\ base = <<>> /\ taken = <<>>
  /\ installed = <<>> /\ evicted = {} /\ installedBy = "none"

\* the callback of one source has ended: by the catch, by the return on a
\* non-success status, or after it has added the lines of the text
SourceDone ==
  /\ rpc = "collecting"
  /\ \E s \in (1..PROXY_SOURCES) \ settled :
       /\ sources[s].kind # "stalled"
       /\ settled' = settled \cup {s}
       /\ set' = IF sources[s].kind = "response" /\ sources[s].ok
                 THEN addLines(set, split(sources[s].text))
                 ELSE set
  /\ UNCHANGED <<rpc, sources, candidates, outsideCollector>>

\* Promise.allSettled has resolved: return [...set]
CollectReturn ==
  /\ rpc = "collecting"
  /\ settled = 1..PROXY_SOURCES
  /\ candidates' = set
  /\ rpc' = "collected"
  /\ UNCHANGED <<sources, settled, set, outsideCollector>>

NextCollect == SourceDone \/ CollectReturn

SpecCollect == InitCollect /\ [][NextCollect]_vars

\* ------------------------------------------------------------ claims
\* the step in which a refresh assigns the pool
Replaced == lastProxyRefresh' # lastProxyRefresh

\* the refresher's own variables move in the step
RefresherMoves == refresher' # refresher

\* C1 as stated: after every refresh that completes, the pool holds at least 0
\* and at most TARGET (35) proxies.
C1_PoolWithinTarget ==
  [][Replaced => Len(proxyPool') >= 0 /\ Len(proxyPool') <= TARGET]_vars

\* C1 amended: after every refresh that completes, the pool holds at least 0
\* and at most TARGET - 1 + BATCH (49) proxies: the target is looked at only
\* between batches, and the whole last batch is kept.
C1_PoolWithinTargetPlusBatch ==
  [][Replaced => Len(proxyPool') >= 0 /\ Len(proxyPool') <= TARGET - 1 + BATCH]_vars

C1_Witness ==
  lastProxyRefresh > 0 /\ Len(proxyPool) = TARGET - 1 + BATCH /\ NoDup(proxyPool)

\* C2: replace is atomic with respect to the cycle.  While a refresh goes on,
\* no step of the refresher writes the pool and a step of the cycle only
\* rotates or shrinks the pool it found; the pool is written by the refresher
\* in the one step that ends the refresh, with every proxy of the tested
\* batches that answered the probe well, in sample order.
C2_ReplaceAtomic ==
  [][/\ (proxyRefreshing /\ proxyRefreshing') =>
          /\ RefresherMoves => UNCHANGED poolState
          /\ Range(proxyPool') \subseteq Range(proxyPool)
     /\ (RefresherMoves /\ poolState' # poolState) =>
          /\ Replaced
          /\ refreshEnded' = refreshEnded + 1
     /\ Replaced =>
          /\ lastProxyRefresh' = lastProxyRefresh + 1
          /\ proxyRefreshing /\ ~proxyRefreshing'
          /\ proxyPool' = IF rpc = "testing"
                          THEN SelectSeq(Slice(pool, 0, i + BATCH),
                                         LAMBDA hp : ProbeAnswer(probe, hp) = "good")
                          ELSE <<>>
    ]_vars

\* a refresh with a partial working set, while the cycle has just evicted a
\* proxy from the previous pool
C2_Witness ==
  /\ cycles = PROXY_REFRESH_EVERY /\ refreshStarted = 2
  /\ rpc = "testing" /\ Len(working) > 0 /\ i > 0
  /\ pc = "directdl" /\ Len(cycleReqs) = 3
  /\ Len(proxyPool) > 0
  /\ ~(Range(working) \subseteq Range(proxyPool))

\* C3: fail-open.  A refresh that ends through its catch writes nothing: the
\* pool, the two counts and the timestamp keep their values, as do the
\* counters and the versions; the single-flight flag is cleared.
C3_FailOpen ==
  [][(refreshEnded' # refreshEnded /\ refreshLog' = "err") =>
        /\ UNCHANGED <<proxyPool, proxyTested, proxyWorking, lastProxyRefresh>>
        /\ UNCHANGED <<counters, versions>>
        /\ proxyRefreshing /\ ~proxyRefreshing'
    ]_vars

\* the second refresh has failed and the pool of the first is still there
C3_Witness ==
  /\ refreshLog = "err" /\ refreshEnded = 2 /\ lastProxyRefresh = 1
  /\ ~proxyRefreshing /\ Len(proxyPool) > 0 /\ proxyWorking = Len(proxyPool)

\* C4: single-flight.  At most one refresh is in progress, and the flag says
\* whether one is; a call made by runCycle while the flag is set starts
\* nothing and changes nothing of the pool, the counts, the timestamp, the
\* flag or the running refresh.
OneRefresh ==
  /\ refreshStarted - refreshEnded \in {0, 1}
  /\ proxyRefreshing <=> refreshStarted - refreshEnded = 1
  /\ proxyRefreshing <=> rpc # "idle"

C4_SingleFlight ==
  [][/\ OneRefresh /\ OneRefresh'
     /\ (cycles' # cycles /\ RefreshDue(cycles') /\ proxyRefreshing) =>
          UNCHANGED <<poolState, proxyRefreshing, refresher, refreshObs>>
    ]_vars

\* cycle 25 has called refreshProxyPool while the refresh of cycle 1 was running
C4_Witness ==
  /\ cycles = PROXY_REFRESH_EVERY /\ pc = "view" /\ Len(cycleReqs) = 1
  /\ proxyRefreshing /\ refreshStarted = 1 /\ refreshEnded = 0

\* a download answer that is a failure: no answer in time, a body that cannot
\* be read, a non-success status, or fewer than MIN_BYTES bytes
Failure(r) == r.kind # "response" \/ ~r.ok \/ r.bytes < MIN_BYTES

Last(q) == q[Len(q)]
Kinds(q) == [k \in 1..Len(q) |-> q[k].kind]
Of(q, kind) == {k \in 1..Len(q) : q[k].kind = kind}

\* C5: whenever the proxy attempt of a cycle fails (timeout, non-success
\* status, body shorter than 100 bytes), the proxy is out of the pool when the
\* direct attempt begins, the direct attempt is for the same file in the same
\* cycle, and none of downloads, dlFailed, errors is incremented by the failure.
C5_ProxyFailureFallsBack ==
  [][(pc = "proxydl" /\ pc' # pc /\ Failure(resp)) =>
        /\ proxy # 0 /\ ~(proxy \in Range(proxyPool'))
        /\ proxyWorking' = Len(proxyPool')
        /\ pc' = "directdl" /\ cycles' = cycles
        /\ Last(cycleReqs) = Req("proxy", file, proxy)
        /\ cycleReqs' = Append(cycleReqs, Req("direct", file, 0))
        /\ UNCHANGED <<downloads, dlFailed, errors>>
    ]_vars

\* the only proxy of the pool has failed and the direct request is out
C5_Witness ==
  /\ pc = "directdl" /\ proxy # 0 /\ Kinds(cycleReqs) = <<"view", "proxy", "direct">>
  /\ proxyPool = <<>> /\ proxyWorking = 0 /\ lastProxyRefresh = 1 /\ proxyTested > 0

\* C6: a proxy that is not in the pool (so an evicted one) enters it only by
\* a replace; nextProxy returns only members of the pool; the eviction takes
\* the failed proxy out, and changes nothing when the proxy is not in the pool.
C6_EvictedStaysOut ==
  [][/\ ~Replaced => Range(proxyPool') \subseteq Range(proxyPool)
     /\ (Len(taken') = Len(taken) + 1 /\ Last(taken') # 0) =>
          Last(taken') \in Range(proxyPool)
     /\ (pc = "proxydl" /\ pc' = "directdl") =>
          /\ ~(proxy \in Range(proxyPool'))
          /\ ~(proxy \in Range(proxyPool)) => proxyPool' = proxyPool
    ]_vars

\* the proxy of this cycle's failed attempt is back in the pool by the replace
\* of the second refresh
C6_Witness ==
  /\ cycles = PROXY_REFRESH_EVERY /\ pc = "directdl"
  /\ Kinds(cycleReqs) = <<"view", "proxy", "direct">>
  /\ lastProxyRefresh = 2 /\ proxy \in Range(proxyPool)
  /\ base = proxyPool /\ taken = <<>>

\* C7: round-robin.  With N distinct members and no eviction and no replace in
\* between, the k-th checkout returns member ((k-1) mod N)+1 of the pool, so N
\* consecutive checkouts return each member once, in pool order, and after
\* every N checkouts the pool is what it was.
C7_RoundRobin ==
  (Len(base) > 0 /\ NoDup(base)) =>
     /\ \A k \in 1..Len(taken) : taken[k] = base[((k - 1) % Len(base)) + 1]
     /\ Len(taken) % Len(base) = 0 => proxyPool = base
     /\ Len(proxyPool) = Len(base) /\ Range(proxyPool) = Range(base)

\* two full rounds over a pool of at least two members
C7_Witness ==
  /\ Len(base) >= 2 /\ NoDup(base) /\ Len(taken) = 2 * Len(base)
  /\ proxyPool = base

\* C8: a checkout on the empty pool returns null and leaves the pool empty; a
\* checkout on a pool of one member returns that member, every time, and
\* leaves the pool as it is.
C8_SmallPools ==
  /\ Len(base) = 0 => /\ proxyPool = <<>>
                      /\ \A k \in 1..Len(taken) : taken[k] = 0
  /\ Len(base) = 1 => /\ proxyPool = base
                      /\ \A k \in 1..Len(taken) : taken[k] = base[1]

\* the one member has been returned twice
C8_Witness ==
  /\ Len(base) = 1 /\ Len(taken) >= 2 /\ proxy = base[1] /\ Len(proxyPool) = 1

\* C9: with an empty pool at download time the cycle makes the direct request
\* for the chosen file at once, with no proxy request and no eviction, and
\* the cycle ends without a cycle-level error.
C9_EmptyPoolGoesDirect ==
  [][/\ (pc = "click" /\ pc' # pc /\ Len(proxyPool) = 0) =>
          /\ pc' = "directdl" /\ proxy' = 0 /\ file' = file
          /\ cycleReqs' = Append(cycleReqs, Req("direct", file, 0))
          /\ Of(cycleReqs', "proxy") = {}
          /\ UNCHANGED <<poolState, counters>>
     /\ (pc = "directdl" /\ proxy = 0 /\ pc' # pc) =>
          /\ pc' = "scheduled" /\ errors' = errors
          /\ cycleReqs' = cycleReqs
          /\ Of(cycleReqs, "proxy") = {} /\ Cardinality(Of(cycleReqs, "direct")) = 1
          /\ UNCHANGED poolState
    ]_vars

\* the first cycle found the pool empty, its direct download failed, and no
\* error is counted
C9_Witness ==
  /\ pc = "scheduled" /\ cycles = 1 /\ Kinds(cycleReqs) = <<"meta", "view", "direct">>
  /\ errors = 0 /\ dlFailed = 1 /\ taken = <<0>>

\* C10: the download requests of a cycle are at most one through a proxy and
\* then at most one direct, each after the cycle's view request; the direct
\* request follows a proxy request only when that proxy attempt has failed.
CycleShape(q) ==
  /\ Cardinality(Of(q, "view")) <= 1
  /\ Cardinality(Of(q, "proxy")) <= 1
  /\ Cardinality(Of(q, "direct")) <= 1
  /\ \A a \in Of(q, "proxy"), b \in Of(q, "direct") : a < b
  /\ \A a \in Of(q, "proxy") \cup Of(q, "direct") : \E v \in Of(q, "view") : v < a

C10_OneFallbackPair ==
  [][/\ CycleShape(cycleReqs')
     /\ (Len(cycleReqs') = Len(cycleReqs) + 1 /\ Last(cycleReqs').kind = "direct"
         /\ Of(cycleReqs, "proxy") # {}) =>
          /\ pc = "proxydl" /\ Failure(resp)
     /\ (pc = "proxydl" /\ pc' # pc /\ ~Failure(resp)) =>
          /\ pc' = "scheduled" /\ cycleReqs' = cycleReqs
    ]_vars

\* the second cycle went through the whole pair and was counted as a download
C10_Witness ==
  /\ pc = "scheduled" /\ Kinds(cycleReqs) = <<"view", "proxy", "direct">>
  /\ cycles = 2 /\ downloads = 2 /\ dlFailed = 0 /\ errors = 0

\* an invocation of runCycle is suspended at one of its awaits
InCycle == pc \in {"grace", "load", "view", "read", "click", "proxydl", "directdl"}

\* C11: every invocation of runCycle that ends, whether its steps succeeded,
\* failed or raised, arms exactly one timer for the next invocation, and a
\* timer is armed by nothing else but the listen callback; so from the listen
\* callback on there is exactly one invocation in progress or pending: never
\* two, and never none (the controller does not stop itself).
C11_AlwaysOneCycle ==
  [][/\ (InCycle /\ ~InCycle') => pc' = "scheduled" /\ timers' = timers + 1
     /\ timers' > timers =>
          /\ timers' = timers + 1
          /\ pc = "boot" \/ (InCycle /\ ~InCycle')
     /\ timers' < timers => timers' = timers - 1 /\ ~InCycle /\ InCycle'
     /\ pc' \in {"boot", "pool"} \/ timers' + (IF InCycle' THEN 1 ELSE 0) = 1
    ]_vars

\* the first cycle raised (the metadata load failed), the second ended with a
\* failed download, and the third invocation is pending
C11_Witness ==
  /\ pc = "scheduled" /\ timers = 1 /\ cycles = 2
  /\ errors = 1 /\ dlFailed = 1 /\ downloads = 0

\* C12: none of the counters cycles, views, downloads, dlFailed, errors ever
\* decreases, in any step of the cycle or of the refresher, whatever fails;
\* a step moves a counter by one at most.
C12_CountersNeverDecrease ==
  [][/\ cycles' \in {cycles, cycles + 1}
     /\ views' \in {views, views + 1}
     /\ downloads' \in {downloads, downloads + 1}
     /\ dlFailed' \in {dlFailed, dlFailed + 1}
     /\ errors' \in {errors, errors + 1}
    ]_vars

\* two cycles in which everything that was tried failed: a metadata load,
\* then a view and a direct download
C12_Witness ==
  /\ cycles = 2 /\ views = 0 /\ downloads = 0 /\ errors = 1 /\ dlFailed = 1
  /\ Kinds(cycleReqs) = <<"meta", "view", "direct">> /\ refreshEnded = 1

\* ---- the collector
\* the value of the digits of t at the positions from..to
RECURSIVE Number(_, _, _)
Number(t, from, to) ==
  IF to < from THEN 0
  ELSE 10 * Number(t, from, to - 1)
       + (CHOOSE d \in 0..9 : DigitChars[d + 1] = t[to])

\* a run of 1 to 3 digits at k whose value is in 0..255: the position after it
AfterOctet(t, k) ==
  LET e == afterDigits(t, k, 1, 3) IN
  IF e > 0 /\ Number(t, k, e - 1) <= 255 THEN e ELSE 0

\* four dot-separated decimal octets in 0..255, a colon, a port of 1 to 5 digits
ValidEntry(t) ==
  LET o1 == afterChar(t, AfterOctet(t, 1), ".")
      o2 == afterChar(t, AfterOctet(t, o1), ".")
      o3 == afterChar(t, AfterOctet(t, o2), ".")
      o4 == afterChar(t, AfterOctet(t, o3), ":")
  IN  afterDigits(t, o4, 1, 5) = Len(t) + 1

\* the sources whose callback has ended after reading a text
Answered == {s \in settled : sources[s].kind = "response" /\ sources[s].ok}

\* the lines of the text of source s, comment and white space removed
Entries(s) == {lineEntry(line) : line \in Range(split(sources[s].text))}

\* C13 as stated: of every text that was read, the collector keeps a line
\* (after removing the text from '#' on and trimming) exactly when it is four
\* dot-separated octets in 0..255, a colon and a port of 1 to 5 digits.
C13_KeepsExactlyValid ==
  \A s \in Answered : \A t \in Entries(s) : t \in Range(set) <=> ValidEntry(t)

\* a text with the lines "999.1.2.3:80" and "1.2.3.4:8" among others has been
\* read: the first is in the set, the second is not
C13_Witness ==
  /\ \E s \in Answered : Host \o <<":", "8">> \in Entries(s)
  /\ <<"9", "9", "9", ".", "1", ".", "2", ".", "3", ":", "8", "0">> \in Range(set)
  /\ ~(Host \o <<":", "8">> \in Range(set))
  /\ Entry8080 \in Range(set)

\* C14 as stated: the collector returns whatever the sources do, and what it
\* returns is the duplicate-free union of the valid entries (C13's) of the
\* sources that answered successfully.
C14_UnionOfValid ==
  rpc = "collected" =>
    /\ NoDup(candidates)
    /\ Range(candidates) = {t \in UNION {Entries(s) : s \in Answered} : ValidEntry(t)}

\* the collector has returned although a source gave no response, one had a
\* body that could not be read and one answered with a non-success status;
\* the two that answered gave the same entry, which is returned once
C14_Witness ==
  /\ rpc = "collected"
  /\ \E a, b, c \in 1..PROXY_SOURCES :
       /\ sources[a].kind = "error" /\ sources[b].kind = "broken"
       /\ sources[c].kind = "response" /\ ~sources[c].ok
  /\ Cardinality(Answered) = 2 /\ \A s \in Answered : Entry8080 \in Entries(s)
  /\ Len(SelectSeq(candidates, LAMBDA t : t = Entry8080)) = 1

\* C15: in every state the members of the pool are the proxies of the working
\* set assigned by the latest replace that the cycle has not evicted since,
\* and each of them passed the health test of that refresh; before the first
\* refresh has completed the pool is empty.
C15_PoolFromLastReplace ==
  /\ lastProxyRefresh = 0 => proxyPool = <<>> /\ installed = <<>>
  /\ Range(proxyPool) = Range(installed) \ evicted
  /\ Len(proxyPool) <= Len(installed)
  /\ \A hp \in Range(proxyPool) : testProxy(installedBy, hp)

\* the second refresh has replaced the pool, the cycle after it has evicted a
\* proxy, and the pool that is left is smaller than the working set
C15_Witness ==
  /\ lastProxyRefresh = 2 /\ evicted # {} /\ evicted \subseteq Range(installed)
  /\ Len(proxyPool) > 0 /\ Len(proxyPool) < Len(installed)
  /\ installedBy = "gap" /\ pc = "directdl"

\* the step starts the tests of a batch
BatchStarts == rpc' = "testing" /\ (rpc # "testing" \/ i' # i)

\* C16: within a refresh at most BATCH (15) health tests are in flight; a
\* batch is started only by the step in which the Promise.all of the batch
\* before it has resolved (or, for the first batch, in which the candidates
\* have arrived); at most SAMPLE_CAP (80) candidates are tested, and none of
\* them twice.
C16_BatchesInTurn ==
  [][/\ BatchStarts =>
          /\ rpc = "collecting" \/ (rpc = "testing" /\ i' = i + Len(InFlight))
          /\ Len(InFlight') \in 1..BATCH
          /\ Tested' = Tested \o InFlight'
          /\ Len(Tested') <= SAMPLE_CAP
          /\ Cardinality(Range(Tested')) = Len(Tested')
     /\ (~BatchStarts /\ rpc' = "testing") => pool' = pool /\ i' = i
    ]_vars

\* of 81 candidates 80 are in the sample; five batches of 15 are through and
\* the last batch, of five, is being tested
C16_Witness ==
  /\ rpc = "testing" /\ Len(pool) = SAMPLE_CAP /\ i = 5 * BATCH
  /\ Len(InFlight) = SAMPLE_CAP - 5 * BATCH /\ Len(Tested) = SAMPLE_CAP
  /\ probe = "firstOnly" /\ working = <<1>>

\* cycle k is the first, or a multiple of the cadence
OnCadence(k) == k = 1 \/ \E m \in 1..k : k = m * PROXY_REFRESH_EVERY

\* C17: runCycle calls refreshProxyPool in cycle k exactly when k = 1 or k is
\* a multiple of 25: in such a cycle a refresh is in progress after the call
\* (a new one when none was), in every other cycle the refresher is left
\* alone, and nothing else starts a refresh.  The call does not hold the
\* cycle: in the same step the cycle makes its first request, except in cycle
\* 1, and only there, where it first waits the grace delay.
C17_RefreshOnCadence ==
  [][/\ cycles' # cycles =>
          /\ cycles' = cycles + 1
          /\ OnCadence(cycles') =>
               /\ proxyRefreshing'
               /\ IF proxyRefreshing
                  THEN UNCHANGED <<refresher, refreshObs>>
                  ELSE refreshStarted' = refreshStarted + 1 /\ rpc' = "collecting"
          /\ ~OnCadence(cycles') => UNCHANGED <<proxyRefreshing, refresher, refreshObs>>
          /\ cycles' = 1 <=> pc' = "grace"
          /\ cycles' # 1 => pc' \in {"load", "view"} /\ Len(cycleReqs') = 1
     /\ refreshStarted' # refreshStarted => cycles' # cycles /\ OnCadence(cycles')
     /\ (pc = "grace" /\ pc' # pc) =>
          /\ cycles = 1 /\ pc' \in {"load", "view"} /\ Len(cycleReqs') = 1
    ]_vars

\* the refresh asked for in cycle 25 is testing its second batch while the
\* cycle has viewed the page and waits for its download
C17_Witness ==
  /\ cycles = PROXY_REFRESH_EVERY /\ refreshStarted = 2 /\ proxyRefreshing
  /\ rpc = "testing" /\ i = BATCH
  /\ pc \in {"proxydl", "directdl"} /\ views = PROXY_REFRESH_EVERY

\* C18: when the metadata load of a cycle raises (a request is rejected, the
\* project answer has a non-success status, a body is not the expected JSON),
\* the step that ends the load counts one error and ends the cycle: the next
\* invocation is scheduled, no view and no download request is made, and the
\* views, the download counters and the pool stay as they are.  errors is
\* incremented by nothing else.
C18_RaisedCycle ==
  [][/\ (pc = "load" /\ pc' # pc /\ resp.kind # "list") =>
          /\ errors' = errors + 1
          /\ pc' = "scheduled" /\ timers' = timers + 1 /\ cycles' = cycles
          /\ Kinds(cycleReqs) = <<"meta">> /\ cycleReqs' = cycleReqs
          /\ UNCHANGED <<views, downloads, dlFailed>>
          /\ UNCHANGED <<proxyPool, proxyTested, proxyWorking, lastProxyRefresh>>
     /\ errors' # errors =>
          /\ errors' = errors + 1
          /\ pc = "load" /\ resp.kind # "list" /\ pc' = "scheduled"
    ]_vars

\* the first cycle ended in the catch, with the pool of the first refresh in
\* place and no proxy taken from it
C18_Witness ==
  /\ pc = "scheduled" /\ cycles = 1 /\ errors = 1 /\ timers = 1
  /\ Kinds(cycleReqs) = <<"meta">>
  /\ views = 0 /\ downloads = 0 /\ dlFailed = 0
  /\ lastProxyRefresh = 1 /\ Len(proxyPool) > 1 /\ taken = <<>> /\ evicted = {}

\* C19: a view that fails (no response in time, or a body that cannot be
\* read) does not end the cycle: errors stays, the reading delay starts, and
\* after it the download step runs in the same cycle; views is incremented by
\* one for a view that completes and by nothing else.
C19_FailedViewGoesOn ==
  [][/\ (pc = "view" /\ pc' # pc) =>
          /\ pc' = "read" /\ cycles' = cycles /\ timers' = timers
          /\ errors' = errors
          /\ views' = IF resp.kind \in {"error", "broken"} THEN views ELSE views + 1
          /\ UNCHANGED <<downloads, dlFailed, cycleReqs, versions>>
     /\ views' # views => pc = "view" /\ resp.kind = "response" /\ views' = views + 1
     /\ (pc = "read" /\ pc' # pc /\ Len(versions) > 0) =>
          /\ pc' = "click" /\ cycles' = cycles /\ file' \in 1..Len(versions)
     /\ (pc = "click" /\ pc' # pc) =>
          /\ cycles' = cycles /\ Len(cycleReqs') = Len(cycleReqs) + 1
          /\ Last(cycleReqs').kind \in {"proxy", "direct"}
          /\ Last(cycleReqs').url = file
    ]_vars

\* the view of the first cycle failed and its download was made and counted
C19_Witness ==
  /\ pc = "scheduled" /\ cycles = 1 /\ views = 0 /\ errors = 0
  /\ downloads = 1 /\ dlFailed = 0
  /\ Kinds(cycleReqs) = <<"meta", "view", "direct">>

\* the latest cycle made its view request, so that a metadata load has
\* succeeded in it or before it (registerView is called only after loadVersions
\* has returned)
LoadSucceeded == Of(cycleReqs, "view") # {}

\* C20 as stated: once a metadata load has succeeded, no step issues a
\* metadata request and the cached version list does not change, whatever the
\* loaded list was.
C20_LoadedOnce ==
  [][LoadSucceeded =>
        /\ ~(pc' = "load" /\ pc # "load")
        /\ versions' = versions
    ]_vars

\* the load of the first cycle succeeded with a list in which no version has
\* files (the view after it was counted), and the second cycle has made the
\* metadata request again
C20_Witness ==
  /\ cycles = 2 /\ pc = "load" /\ Kinds(cycleReqs) = <<"meta">>
  /\ views = 1 /\ errors = 0 /\ versions = <<>>

\* C21 as stated: every refresh that starts ends and clears the single-flight
\* flag, whatever the sources and the proxies do.
C21_RefreshEnds == proxyRefreshing ~> ~proxyRefreshing

\* the refresh of the first cycle waits for a batch in which the body of one
\* test does not end; the flag is set, and the cycles go on without it
C21_Witness ==
  /\ proxyRefreshing /\ rpc = "testing" /\ probe = "secondStalls"
  /\ \E hp \in Range(InFlight) : ~testReturns(probe, hp)
  /\ cycles = MaxCycles /\ pc = "scheduled" /\ refreshEnded = 0

\* C22 as stated: every cycle that starts schedules the next one, the
\* controller never stays in loading, viewing or downloading for ever.
C22_CycleEnds == InCycle ~> pc = "scheduled"

C22_Witness ==
  /\ pc \in {"view", "proxydl", "directdl"} /\ resp = StalledBody
  /\ cycles = 1 /\ timers = 0

\* C23: the three outcome counters together never exceed the number of cycles
\* started, and neither do the views; the cycle in progress has not been counted
\* yet, a counter moves by one, only one of the three moves in a cycle and only
\* at the step that ends it, and a cycle that ends from a download request
\* moves exactly one of downloads and dlFailed.
Outcomes == downloads + dlFailed + errors

C23_OneOutcomePerCycle ==
  /\ [](/\ Outcomes <= cycles /\ views <= cycles
        /\ InCycle => Outcomes < cycles
        /\ pc \in {"grace", "load", "view"} => views < cycles)
  /\ [][/\ downloads' \in {downloads, downloads + 1}
        /\ dlFailed' \in {dlFailed, dlFailed + 1}
        /\ errors' \in {errors, errors + 1}
        /\ views' \in {views, views + 1}
        /\ Outcomes' \in {Outcomes, Outcomes + 1}
        /\ Outcomes' # Outcomes => InCycle /\ pc' = "scheduled"
        /\ (pc \in {"proxydl", "directdl"} /\ pc' = "scheduled") =>
             /\ errors' = errors
             /\ downloads' + dlFailed' = downloads + dlFailed + 1]_vars

C23_Witness ==
  /\ cycles = MaxCycles /\ pc = "scheduled" /\ views = MaxCycles
  /\ downloads = 1 /\ dlFailed = 1 /\ errors = 0
  /\ Kinds(cycleReqs) = <<"view", "proxy", "direct">>

\* the pool has been replaced since the proxy of the outstanding attempt was
\* checked out
ReplacedSinceCheckout == pc = "proxydl" /\ taken = <<>>

\* C24: when a refresh replaces the pool between the checkout of a proxy and
\* the eviction of that proxy, the eviction acts on the pool the refresh
\* installed: the failed proxy is taken out of it if it is there, every other
\* member stays, in its place, and nothing of the pool before the replace
\* comes back.
C24_EvictsFromNewPool ==
  [][(ReplacedSinceCheckout /\ pc' = "directdl") =>
       /\ proxyPool = installed
       /\ proxyPool' = FilterOut(installed, proxy)
       /\ proxyWorking' = Len(proxyPool')
       /\ installed' = installed /\ lastProxyRefresh' = lastProxyRefresh
    ]_vars

\* cycle PROXY_REFRESH_EVERY has evicted a proxy that the second refresh had
\* verified again and that is not the head of the pool it installed: it was
\* checked out of the pool of the first refresh
C24_Witness ==
  /\ cycles = PROXY_REFRESH_EVERY /\ pc = "directdl" /\ lastProxyRefresh = 2
  /\ \E k \in 2..Len(installed) : proxy = installed[k]
  /\ evicted = {proxy} /\ proxyPool = FilterOut(installed, proxy)

\* the refresh is waiting for its last batch, no candidate tested so far was
\* usable and none of the batch is
NoneUsable ==
  /\ rpc = "testing" /\ working = <<>>
  /\ \A hp \in Range(InFlight) : ~testProxy(probe, hp)
  /\ ~LoopGoesOn(i + BATCH, pool, <<>>)

\* the step ends the refresh past the try block, not through its catch
EndsNormally == proxyRefreshing /\ ~proxyRefreshing' /\ refreshLog' # "err"

\* C25: a refresh that got no candidate, or none that passed the test, and
\* that ends without an exception ends as a refresh that replaced the pool: the
\* pool and the working count are empty whatever the pool held, the timestamp
\* is set, a warning and no error is logged, and the flag is cleared.
C25_EmptyRefreshReplaces ==
  [][(EndsNormally /\ (rpc = "collecting" \/ NoneUsable)) =>
       /\ proxyPool' = <<>> /\ proxyWorking' = 0
       /\ lastProxyRefresh' = lastProxyRefresh + 1
       /\ refreshLog' = "warn"
       /\ refreshEnded' = refreshEnded + 1 /\ rpc' = "idle"
    ]_vars

\* cycle PROXY_REFRESH_EVERY checked a proxy out of the pool of the first
\* refresh; the second refresh, whose candidates all failed the test, has
\* emptied the pool since, with a warning
C25_Witness ==
  /\ cycles = PROXY_REFRESH_EVERY /\ pc = "proxydl" /\ proxy # 0
  /\ lastProxyRefresh = 2 /\ ~proxyRefreshing /\ refreshLog = "warn"
  /\ proxyPool = <<>> /\ proxyWorking = 0 /\ evicted = {} /\ proxyTested > 0

\* the members of s are pairwise distinct
Distinct(s) == Cardinality(Range(s)) = Len(s)

\* C26: in every reachable state no proxy is in the pool twice; nor is one in
\* the sample a refresh tests or in the working set it builds.
C26_NoDuplicate == Distinct(proxyPool) /\ Distinct(pool) /\ Distinct(working)

\* the pool of the second refresh after the checkouts of two cycles, the
\* second of them outstanding
C26_Witness ==
  /\ cycles = PROXY_REFRESH_EVERY + 1 /\ pc = "proxydl" /\ lastProxyRefresh = 2
  /\ Len(proxyPool) = MaxPool /\ Distinct(proxyPool)
  /\ Last(proxyPool) = proxy /\ Len(taken) = 2

\* C27: wherever control can pass between the cycle and the refresher, that is
\* in every state between two steps, the working count is the length of the
\* pool.
C27_CountIsLength == proxyWorking = Len(proxyPool)

\* the second refresh has set the pool and the count, a checkout has rotated
\* the pool and an eviction has made both smaller
C27_Witness ==
  /\ lastProxyRefresh = 2 /\ pc = "directdl" /\ proxy \in evicted
  /\ proxyWorking = MaxPool - 1 /\ Len(installed) = MaxPool
  /\ proxyTested = MaxPool /\ Len(proxyPool) = MaxPool - 1

====
